---------------------------- MODULE Spec2Model ----------------------------
(***************************************************************************)
(* The Files client of go-dropbox (src/files.go): ten operations, each a   *)
(* single request to the transport primitive (call / download of Client)   *)
(* followed, for nine of them, by a JSON decode of the response body and   *)
(* a deferred Close of that body.                                          *)
(*                                                                         *)
(* The callers are goroutines.  Every handler but Search touches nothing   *)
(* but its own locals, the transport and the remote store, so it is one    *)
(* atomic action.  Search reads and writes a field of the caller's record  *)
(* before it calls the transport; these memory accesses are steps of       *)
(* their own.                                                              *)
(***************************************************************************)
EXTENDS Integers, Sequences, FiniteSets, TLC

\* Longest byte stream a caller uploads.
MaxLen == 2

\* Go's nil error.
Nil == "nil"

\* A pointer (or an interface value) is <<>> when nil and <<x>> when it
\* points to x.
NilPtr == <<>>

Ref(x) == <<x>>

Deref(p) == p[1]

\* The goroutines that call the facade.
Procs == {"g1", "g2"}

(***************************************************************************)
(* Constants of the source.                                                *)
(***************************************************************************)
WriteModeAdd == "add"
WriteModeOverwrite == "overwrite"
SearchModeFilename == "filename"
SearchModeFilenameAndContent == "filename_and_content"
SearchModeDeletedFilename == "deleted_filename"

\* What a reader can observe of a string field while another goroutine
\* stores to it: a pointer and a length that belong to different values.
TornString == "<torn>"

OpNames ==
  {"GetMetadata", "CreateFolder", "Delete", "Copy", "Move", "Restore",
   "ListFolder", "Search", "Upload", "Download"}

JSONOps == OpNames \ {"Download"}

Endpoint(op) ==
  CASE op = "GetMetadata"  -> "/files/get_metadata"
    [] op = "CreateFolder" -> "/files/create_folder"
    [] op = "Delete"       -> "/files/delete"
    [] op = "Copy"         -> "/files/copy"
    [] op = "Move"         -> "/files/move"
    [] op = "Restore"      -> "/files/restore"
    [] op = "ListFolder"   -> "/files/list_folder"
    [] op = "Search"       -> "/files/search"
    [] op = "Upload"       -> "/files/upload"
    [] op = "Download"     -> "/files/download"

(***************************************************************************)
(* Output records.  A schema gives, for each JSON key of an output type,   *)
(* the JSON type its field accepts.                                        *)
(***************************************************************************)
Metadata ==
  [k \in {".tag", "name", "path_lower", "client_modified", "server_modified",
          "rev", "size", "id"} |->
     CASE k = "size" -> "num"
       [] k \in {"client_modified", "server_modified"} -> "time"
       [] OTHER -> "str"]

CreateFolderOutput == [name |-> "str", path_lower |-> "str", id |-> "str"]

ListFolderOutput == [cursor |-> "str", has_more |-> "bool", Entries |-> "arr"]

SearchOutput == [matches |-> "arr", more |-> "bool", start |-> "num"]

OutputSchema(op) ==
  CASE op = "CreateFolder" -> CreateFolderOutput
    [] op = "ListFolder"   -> ListFolderOutput
    [] op = "Search"       -> SearchOutput
    [] OTHER               -> Metadata

\* Go's zero value of a field of the given JSON type.
\* Values are written as their JSON text.
ZeroOf(t) ==
  CASE t = "str"  -> ""
    [] t = "num"  -> "0"
    [] t = "bool" -> "false"
    [] t = "arr"  -> "[]"
    [] t = "time" -> "0001-01-01T00:00:00Z"

ZeroRecord(schema) == [k \in DOMAIN schema |-> ZeroOf(schema[k])]

(***************************************************************************)
(* Response bodies.  A JSON document is                                    *)
(*   [k |-> "bad"]    text that is not JSON, or no text at all             *)
(*   [k |-> "null"]   the literal null                                     *)
(*   [k |-> "arr"]    an array at the top level                            *)
(*   [k |-> "obj", f |-> <<member, ...>>]  an object, its members in order *)
(* and a member is [key, t, v]: a key and a value of JSON type t ("time":  *)
(* a string that is an RFC 3339 time).  Keys are written as the field tags *)
(* spell them.                                                             *)
(***************************************************************************)
Member(key, t, v) == [key |-> key, t |-> t, v |-> v]

Obj(members) == [k |-> "obj", f |-> members]

Documents ==
  { [k |-> "bad"], [k |-> "null"], [k |-> "arr"],
    Obj(<<Member("name", "str", "a.txt"), Member("size", "num", "5")>>),
    Obj(<<Member("name", "str", "a.txt"), Member("size", "str", "big"),
          Member("cursor", "num", "1")>>),
    Obj(<<Member("start", "str", "x"), Member("more", "bool", "true"),
          Member("has_more", "bool", "true")>>) }

SyntaxError == "json: syntax error"
TimeParseError == "parsing time"
UnmarshalTypeError == "json: cannot unmarshal"
ErrBodyClosed == "http: read on closed response body"

\* decodeState.object: the members in order; a member whose key is no field
\* is skipped, one whose value has the wrong type records the first such
\* error and decoding goes on with the next member.  A time.Time field
\* unmarshals itself, and its error ends the decoding at once.
RECURSIVE object(_, _, _, _)
object(schema, members, rec, saved) ==
  IF members = <<>> THEN [out |-> rec, err |-> saved]
  ELSE LET m == Head(members) IN
       IF m.key \notin DOMAIN schema
         THEN object(schema, Tail(members), rec, saved)
       ELSE IF m.t = schema[m.key]
         THEN object(schema, Tail(members), [rec EXCEPT ![m.key] = m.v], saved)
       ELSE IF schema[m.key] = "time"
         THEN [out |-> rec, err |-> TimeParseError]
       ELSE object(schema, Tail(members), rec,
                   IF saved = Nil THEN UnmarshalTypeError ELSE saved)

(***************************************************************************)
(* Streams.  A response body is [content, open, log]: what it yields, and  *)
(* whether it is open; log is the sequence of "read" and "close" it has    *)
(* received.  A caller's Reader is [data, pos].                            *)
(***************************************************************************)
NewBody(content) == [content |-> content, open |-> TRUE, log |-> <<>>]

NewReader(data) == [data |-> data, pos |-> 0]

Remaining(r) == SubSeq(r.data, r.pos + 1, Len(r.data))

\* body.Close()
Close(b) == [b EXCEPT !.open = FALSE, !.log = Append(@, "close")]

\* json.NewDecoder(body).Decode(&out), out a nil pointer to a record of the
\* schema.  The decoder first reads one whole JSON value from the body and
\* fails, out untouched, when there is none; then it unmarshals the value:
\* null leaves out nil, anything else allocates the record before its type
\* is looked at.
Decode(schema, b) ==
  LET after == [b EXCEPT !.log = Append(@, "read")]
      doc == b.content
  IN CASE ~b.open ->
            [out |-> NilPtr, err |-> ErrBodyClosed, body |-> after]
       [] doc.k = "bad" ->
            [out |-> NilPtr, err |-> SyntaxError, body |-> after]
       [] doc.k = "null" ->
            [out |-> NilPtr, err |-> Nil, body |-> after]
       [] doc.k = "arr" ->
            [out |-> Ref(ZeroRecord(schema)), err |-> UnmarshalTypeError,
             body |-> after]
       [] doc.k = "obj" ->
            LET r == object(schema, doc.f, ZeroRecord(schema), Nil)
            IN [out |-> Ref(r.out), err |-> r.err, body |-> after]

(***************************************************************************)
(* The callers' input records.  Each record has the type one operation     *)
(* takes; a call is given a pointer to one of them.                        *)
(***************************************************************************)
SearchRecs == {"s1", "s2"}

UploadRecs == {"u1", "u2"}

DownloadRecs == {"d1", "d2"}

InputRecs(op) ==
  CASE op = "GetMetadata"  -> {"gm"}
    [] op = "CreateFolder" -> {"cf"}
    [] op = "Delete"       -> {"del"}
    [] op = "Copy"         -> {"cp"}
    [] op = "Move"         -> {"mv"}
    [] op = "Restore"      -> {"rs"}
    [] op = "ListFolder"   -> {"lf"}
    [] op = "Search"       -> SearchRecs
    [] op = "Upload"       -> UploadRecs
    [] op = "Download"     -> DownloadRecs

Recs == UNION {InputRecs(op) : op \in OpNames}

Paths == {"/a.txt", "/b.txt"}

SearchModes ==
  {"", SearchModeFilename, SearchModeFilenameAndContent}

SearchInput(path, mode) ==
  [Path |-> path, Query |-> "q", Start |-> 0, MaxResults |-> 0, Mode |-> mode]

\* The records of the operations that only read their input.
FixedInput(r) ==
  CASE r = "gm"  -> [Path |-> "/a.txt", IncludeMediaInfo |-> FALSE]
    [] r = "cf"  -> [Path |-> "/dir"]
    [] r = "del" -> [Path |-> "/a.txt"]
    [] r = "cp"  -> [FromPath |-> "/a.txt", ToPath |-> "/b.txt"]
    [] r = "mv"  -> [FromPath |-> "/a.txt", ToPath |-> "/b.txt"]
    [] r = "rs"  -> [Path |-> "/a.txt", Rev |-> "r1"]
    [] r = "lf"  -> [Path |-> "", Recursive |-> FALSE,
                     IncludeMediaInfo |-> FALSE, IncludeDeleted |-> FALSE]
    [] r = "u1"  -> [Path |-> "/a.txt", Mode |-> WriteModeAdd,
                     AutoRename |-> FALSE, Mute |-> FALSE, Reader |-> "u1"]
    [] r = "u2"  -> [Path |-> "/a.txt", Mode |-> WriteModeOverwrite,
                     AutoRename |-> FALSE, Mute |-> FALSE, Reader |-> "u2"]
    [] r = "d1"  -> [Path |-> "/a.txt"]
    [] r = "d2"  -> [Path |-> "/b.txt"]

\* The byte streams a caller uploads: the first n bytes of 1, 2, 3, ...
Contents == { [i \in 1..n |-> i] : n \in 0..MaxLen }

(***************************************************************************)
(* State.                                                                  *)
(*   files   the Files client (its embedded Client and Config)             *)
(*   mem     the callers' input records                                    *)
(*   store   the remote store: per path, nil or a pointer to its bytes     *)
(*   lastUp  per path, the bytes of the caller's stream in the last        *)
(*           upload the remote store accepted                              *)
(*   frame   per goroutine, the stack frame of its call and what the call  *)
(*           returned                                                      *)
(***************************************************************************)
VARIABLES files, mem, store, lastUp, frame

vars == <<files, mem, store, lastUp, frame>>

\* NewFiles(config)
NewFiles(config) == [Client |-> [Config |-> config]]

IdleFrame ==
  [pc |-> "idle", op |-> "", in |-> "", orig |-> NilPtr, files0 |-> NilPtr,
   mode |-> "", reqs |-> <<>>, res |-> NilPtr, reader |-> NilPtr,
   body |-> NilPtr, out |-> NilPtr, err |-> Nil, expect |-> NilPtr]

Init ==
  /\ files = NewFiles("config")
  /\ \E m1, m2 \in SearchModes : \E p \in Paths :
       mem = [r \in Recs |->
                CASE r = "s1" -> SearchInput("/a.txt", m1)
                  [] r = "s2" -> SearchInput(p, m2)
                  [] OTHER    -> FixedInput(r)]
  /\ store = [p \in Paths |-> NilPtr]
  /\ lastUp = [p \in Paths |-> NilPtr]
  /\ frame = [g \in Procs |-> IdleFrame]

(***************************************************************************)
(* The transport primitives of Client and the remote store behind them.    *)
(* A primitive returns an error and no stream, or a stream and no error.   *)
(***************************************************************************)
TransportErrors == {"dial tcp: i/o timeout", "dropbox: remote error"}

Failures == { [body |-> NilPtr, err |-> e] : e \in TransportErrors }

\* Client.call(path, in)
call(path, in) ==
  Failures \cup { [body |-> Ref(NewBody(d)), err |-> Nil] : d \in Documents }

\* What the remote store does with an upload of data to in.Path.
Conflict(st, in, data) ==
  /\ st[in.Path] # NilPtr
  /\ in.Mode = WriteModeAdd
  /\ Deref(st[in.Path]) # data

\* Client.download(path, in, r): for /files/upload the request body r is
\* read to its end and kept by the store, and the response is JSON; for
\* /files/download the response is the bytes the store keeps. Each result
\* carries the store and the reader as the request leaves them.
download(path, in, r, st) ==
  LET failed == { [body |-> f.body, err |-> f.err, store |-> st, reader |-> r]
                  : f \in Failures }
      data == IF r = NilPtr THEN <<>> ELSE Remaining(Deref(r))
      read == IF r = NilPtr THEN r
              ELSE Ref([Deref(r) EXCEPT !.pos = Len(Deref(r).data)])
  IN IF path = "/files/upload"
       THEN IF Conflict(st, in, data) THEN failed
            ELSE failed \cup
                 { [body |-> Ref(NewBody(d)), err |-> Nil,
                    store |-> [st EXCEPT ![in.Path] = Ref(data)],
                    reader |-> read] : d \in Documents }
       ELSE IF st[in.Path] = NilPtr THEN failed
            ELSE failed \cup
                 { [body |-> Ref(NewBody(Deref(st[in.Path]))), err |-> Nil,
                    store |-> st, reader |-> r] }

(***************************************************************************)
(* The handlers.  Nine of them have one body:                              *)
(*     body, err := c.call(endpoint, in)                                   *)
(*     if err != nil { return }                                            *)
(*     defer body.Close()                                                  *)
(*     err = json.NewDecoder(body).Decode(&out)                            *)
(*     return                                                              *)
(* with out and err the named results, out nil at entry.                   *)
(***************************************************************************)

\* The caller's side of a call: the frame at entry.
Enter(op, r) ==
  [IdleFrame EXCEPT !.op = op, !.in = r, !.orig = Ref(mem[r]),
                    !.files0 = Ref(files)]

\* Request with the request issued a second time.
Request_Twice(f, in, r) ==
  [f EXCEPT !.reqs = @ \o << [endpoint |-> Endpoint(f.op), in |-> in, body |-> r],
                             [endpoint |-> Endpoint(f.op), in |-> in, body |-> r] >>]

\* The handler's one request to the transport: the endpoint, the input
\* record as the transport reads it, and the request body.
Request(f, in, r) ==
  [f EXCEPT !.reqs = Append(@, [endpoint |-> Endpoint(f.op),
                                in |-> in, body |-> r])]

\* ReturnError with the error wrapped in one of the facade's own.
ReturnError_Wrapped(f, res) ==
  [f EXCEPT !.pc = "done", !.res = Ref([body |-> res.body, err |-> res.err]),
            !.err = "files: request failed"]

\* if err != nil { return }: the named results as they stand.
ReturnError(f, res) ==
  [f EXCEPT !.pc = "done", !.res = Ref([body |-> res.body, err |-> res.err]),
            !.err = res.err]

\* DeferClose with the defer statement left out.
DeferClose_Missing(b) == b

\* defer body.Close(), run when the handler returns.
DeferClose(b) == Close(b)

\* err = json.NewDecoder(body).Decode(&out); return
DecodeReturn(f, res) ==
  LET d == Decode(OutputSchema(f.op), Deref(res.body))
  IN [f EXCEPT !.pc = "done",
               !.res = Ref([body |-> res.body, err |-> res.err]),
               !.out = d.out, !.err = d.err,
               !.body = Ref(DeferClose(d.body))]

Respond(f, res) ==
  IF res.err # Nil THEN ReturnError(f, res) ELSE DecodeReturn(f, res)

\* ReturnBody with the defer body.Close() of the other handlers.
ReturnBody_Closed(f, res) ==
  [f EXCEPT !.pc = "done", !.res = Ref([body |-> res.body, err |-> res.err]),
            !.out = Ref([Body |-> "resp"]), !.err = Nil,
            !.body = Ref(Close(Deref(res.body)))]

\* return &DownloadOutput{body}, nil: Body is the transport's stream, named
\* "resp" here, in the state the handler leaves it.
ReturnBody(f, res) ==
  [f EXCEPT !.pc = "done", !.res = Ref([body |-> res.body, err |-> res.err]),
            !.out = Ref([Body |-> "resp"]), !.err = Nil, !.body = res.body]

\* RequestBody with Upload passing nil, as Download does.
RequestBody_Nil(op, reader) == NilPtr

\* The third argument of c.download: in.Reader for Upload, nil for Download.
RequestBody(op, reader) == IF op = "Upload" THEN reader ELSE NilPtr

\* A call that has returned is taken by its caller before another goroutine
\* moves.  Return(g) changes frame[g] alone, so this leaves out no behaviour
\* of the handlers.  Finished Search calls may stay side by side, so that
\* two of them can be compared.
Taken(g) ==
  \A h \in Procs \ {g} : frame[h].pc = "done" => frame[h].op = "Search"

\* A handler that calls c.call and decodes.
JSONCall(g, op) ==
  /\ Taken(g)
  /\ frame[g].pc = "idle"
  /\ \E r \in InputRecs(op) : \E res \in call(Endpoint(op), mem[r]) :
       frame' = [frame EXCEPT
                   ![g] = Respond(Request(Enter(op, r), mem[r], NilPtr), res)]
  /\ UNCHANGED <<files, mem, store, lastUp>>

GetMetadata(g) == JSONCall(g, "GetMetadata")

CreateFolder(g) == JSONCall(g, "CreateFolder")

Delete(g) == JSONCall(g, "Delete")

Copy(g) == JSONCall(g, "Copy")

Move(g) == JSONCall(g, "Move")

Restore(g) == JSONCall(g, "Restore")

ListFolder(g) == JSONCall(g, "ListFolder")

(***************************************************************************)
(* Search.  Its first statement reads in.Mode and its second stores to it; *)
(* the transport then reads the record.  A load that runs while another    *)
(* goroutine is at its store to the same field is a data race: it yields   *)
(* the field as it is, or a torn string.                                   *)
(***************************************************************************)
Storing(h, r) == frame[h].pc = "fill" /\ frame[h].in = r

Loading(h, r) == frame[h].pc \in {"check", "call"} /\ frame[h].in = r

InFlight(h, r) == Storing(h, r) \/ Loading(h, r)

LoadMode(g, r) ==
  IF \E h \in Procs \ {g} : Storing(h, r)
    THEN {mem[r].Mode, TornString}
    ELSE {mem[r].Mode}

\* The caller calls Search(in).  With shared false the caller gives a record
\* to one Search at a time.
SearchBegin(g, shared) ==
  /\ Taken(g)
  /\ frame[g].pc = "idle"
  /\ \E r \in SearchRecs :
       /\ shared \/ \A h \in Procs \ {g} : ~InFlight(h, r)
       /\ frame' = [frame EXCEPT ![g] = [Enter("Search", r) EXCEPT !.pc = "check"]]
  /\ UNCHANGED <<files, mem, store, lastUp>>

\* if in.Mode == ""
SearchCheck(g) ==
  /\ Taken(g)
  /\ frame[g].pc = "check"
  /\ \E m \in LoadMode(g, frame[g].in) :
       frame' = [frame EXCEPT ![g].mode = m,
                              ![g].pc = IF m = "" THEN "fill" ELSE "call"]
  /\ UNCHANGED <<files, mem, store, lastUp>>

\* DefaultMode with another of the search modes.
DefaultMode_Content == SearchModeFilenameAndContent

\* The value Search stores.
DefaultMode == SearchModeFilename

\* StoreMode on a copy of the record: the caller's record is left alone.
StoreMode_Copy(m, r) == m

\* in.Mode = SearchModeFilename
StoreMode(m, r) == [m EXCEPT ![r].Mode = DefaultMode]

SearchFill(g) ==
  /\ Taken(g)
  /\ frame[g].pc = "fill"
  /\ mem' = StoreMode(mem, frame[g].in)
  /\ frame' = [frame EXCEPT ![g].pc = "call"]
  /\ UNCHANGED <<files, store, lastUp>>

\* body, err := c.call("/files/search", in) and the rest of the handler.
SearchCall(g) ==
  /\ Taken(g)
  /\ frame[g].pc = "call"
  /\ LET r == frame[g].in
     IN \E m \in LoadMode(g, r) : \E res \in call(Endpoint("Search"), mem[r]) :
          frame' = [frame EXCEPT
                      ![g] = Respond(Request(frame[g],
                                             [mem[r] EXCEPT !.Mode = m],
                                             NilPtr), res)]
  /\ UNCHANGED <<files, mem, store, lastUp>>

(***************************************************************************)
(* Upload and Download.                                                    *)
(***************************************************************************)
\* The caller puts a fresh stream of data in in.Reader and calls Upload(in).
Upload(g) ==
  /\ Taken(g)
  /\ frame[g].pc = "idle"
  /\ \E r \in UploadRecs : \E data \in Contents :
       LET reader == Ref(NewReader(data))
           f == [Enter("Upload", r) EXCEPT !.reader = reader]
           arg == RequestBody("Upload", reader)
       IN \E res \in download(Endpoint("Upload"), mem[r], arg, store) :
            /\ frame' = [frame EXCEPT
                           ![g] = [Respond(Request(f, mem[r], arg), res)
                                     EXCEPT !.reader =
                                       IF arg = NilPtr THEN reader
                                       ELSE res.reader]]
            /\ store' = res.store
            /\ lastUp' = IF res.err = Nil
                           THEN [lastUp EXCEPT ![mem[r].Path] = Ref(data)]
                           ELSE lastUp
  /\ UNCHANGED <<files, mem>>

Download(g) ==
  /\ Taken(g)
  /\ frame[g].pc = "idle"
  /\ \E r \in DownloadRecs :
       LET f == [Enter("Download", r) EXCEPT !.expect = lastUp[mem[r].Path]]
           arg == RequestBody("Download", NilPtr)
       IN \E res \in download(Endpoint("Download"), mem[r], arg, store) :
            frame' = [frame EXCEPT
                        ![g] = IF res.err # Nil
                                 THEN ReturnError(Request(f, mem[r], arg), res)
                                 ELSE ReturnBody(Request(f, mem[r], arg), res)]
  /\ UNCHANGED <<files, mem, store, lastUp>>

\* The caller takes what the call returned (and closes a Body it was given).
Return(g) ==
  /\ Taken(g)
  /\ frame[g].pc = "done"
  /\ frame' = [frame EXCEPT ![g] = IdleFrame]
  /\ UNCHANGED <<files, mem, store, lastUp>>

\* Calls that run at the same time are given records of their own.
Next ==
  \E g \in Procs :
    \/ GetMetadata(g)
    \/ CreateFolder(g)
    \/ Delete(g)
    \/ Copy(g)
    \/ Move(g)
    \/ Restore(g)
    \/ ListFolder(g)
    \/ SearchBegin(g, FALSE)
    \/ SearchCheck(g)
    \/ SearchFill(g)
    \/ SearchCall(g)
    \/ Upload(g)
    \/ Download(g)
    \/ Return(g)

Spec == Init /\ [][Next]_vars

\* Calls that run at the same time may be given the same record.
NextShared ==
  \E g \in Procs :
    \/ GetMetadata(g)
    \/ CreateFolder(g)
    \/ Delete(g)
    \/ Copy(g)
    \/ Move(g)
    \/ Restore(g)
    \/ ListFolder(g)
    \/ SearchBegin(g, TRUE)
    \/ SearchCheck(g)
    \/ SearchFill(g)
    \/ SearchCall(g)
    \/ Upload(g)
    \/ Download(g)
    \/ Return(g)

SpecShared == Init /\ [][NextShared]_vars

(***************************************************************************)
(* Properties.                                                             *)
(***************************************************************************)
Done(g) == frame[g].pc = "done"

\* What the transport returned to the call of g.
Res(g) == Deref(frame[g].res)

\* The input record of the call of g as it was when the call began.
Orig(g) == Deref(frame[g].orig)

\* The call of g is of a JSON-decoded operation and was given a stream.
Streamed(g) ==
  Done(g) /\ frame[g].op \in JSONOps /\ Res(g).body # NilPtr

\* C1: a JSON-decoded operation that was given a response stream returns
\* with that stream read by one decode and then closed once, whether the
\* decode succeeded or failed.
C1_StreamClosedOnceAfterDecode ==
  \A g \in Procs :
    Streamed(g) =>
      /\ frame[g].body # NilPtr
      /\ Deref(frame[g].body).content = Deref(Res(g).body).content
      /\ Deref(frame[g].body).log = <<"read", "close">>
      /\ ~Deref(frame[g].body).open

C1_Witness ==
  \E g, h \in Procs :
    /\ Streamed(g) /\ frame[g].err = UnmarshalTypeError
    /\ Deref(frame[g].body).log = <<"read", "close">>
    /\ Streamed(h) /\ frame[h].err = Nil /\ frame[h].out # NilPtr
    /\ Deref(frame[h].body).log = <<"read", "close">>

\* C2: a Download that succeeds returns the transport's stream as Body, open
\* and neither read nor closed; one whose transport fails returns a nil
\* output and the error, and holds no stream.
C2_DownloadBodyOpen ==
  \A g \in Procs :
    (Done(g) /\ frame[g].op = "Download") =>
      IF Res(g).err = Nil
        THEN /\ frame[g].out = Ref([Body |-> "resp"])
             /\ frame[g].err = Nil
             /\ frame[g].body = Res(g).body
             /\ Deref(frame[g].body).open
             /\ Deref(frame[g].body).log = <<>>
        ELSE /\ frame[g].out = NilPtr
             /\ frame[g].err = Res(g).err
             /\ frame[g].body = NilPtr

C2_Witness ==
  \E g \in Procs :
    /\ Done(g) /\ frame[g].op = "Download" /\ Res(g).err = Nil
    /\ frame[g].out # NilPtr
    /\ Deref(frame[g].body).open
    /\ Len(Deref(frame[g].body).content) >= 1

\* C3: a JSON-decoded operation whose decode fails returns a nil output.
C3_NoPartialResult ==
  \A g \in Procs :
    (Streamed(g) /\ frame[g].err # Nil) => frame[g].out = NilPtr

\* C4: an operation whose transport call fails returns that error value and
\* a nil output, and neither reads nor closes a stream.
C4_TransportErrorUnmodified ==
  \A g \in Procs :
    (Done(g) /\ Res(g).err # Nil) =>
      /\ frame[g].err = Res(g).err
      /\ frame[g].out = NilPtr
      /\ frame[g].body = NilPtr

C4_Witness ==
  \E g, h \in Procs :
    /\ Done(g) /\ frame[g].op = "Search"
    /\ Res(g).err = "dropbox: remote error" /\ frame[g].err = Res(g).err
    /\ Done(h) /\ frame[h].op = "Upload"
    /\ Res(h).err = "dial tcp: i/o timeout" /\ frame[h].err = Res(h).err

\* C5: a call issues one request to the transport, whatever comes of it, and
\* returns the transport's error or else the decode's: none is retried and
\* none is turned into nil.
C5_OneRequestPerCall ==
  \A g \in Procs :
    /\ Len(frame[g].reqs) <= 1
    /\ Done(g) =>
         /\ Len(frame[g].reqs) = 1
         /\ frame[g].reqs[1].endpoint = Endpoint(frame[g].op)
         /\ Res(g).err # Nil => frame[g].err = Res(g).err
         /\ Streamed(g) =>
              frame[g].err =
                Decode(OutputSchema(frame[g].op), Deref(Res(g).body)).err

C5_Witness ==
  \E g, h \in Procs :
    /\ Streamed(g) /\ frame[g].err = SyntaxError /\ Len(frame[g].reqs) = 1
    /\ Done(h) /\ Res(h).err # Nil /\ frame[h].err = Res(h).err
    /\ Len(frame[h].reqs) = 1

\* The request of a Search whose input record held in: the record with an
\* empty Mode replaced by "filename".
SearchRequest(in) ==
  [endpoint |-> "/files/search",
   in |-> IF in.Mode = "" THEN [in EXCEPT !.Mode = "filename"] ELSE in,
   body |-> NilPtr]

SearchDone(g) == Done(g) /\ frame[g].op = "Search"

\* The call of h is the call of g with Mode = Filename instead of an empty
\* Mode, and the transport answered both alike.
FilenameTwin(g, h) ==
  /\ SearchDone(g) /\ SearchDone(h)
  /\ Orig(g).Mode = ""
  /\ Orig(h) = [Orig(g) EXCEPT !.Mode = SearchModeFilename]
  /\ Res(g) = Res(h)

\* C6: a Search with an empty Mode sends the request, and returns the output
\* and the error, of the Search with Mode = Filename and the other fields
\* equal, given the same response; a non-empty Mode is sent as it is.
C6_EmptyModeIsFilename ==
  /\ \A g \in Procs :
       SearchDone(g) => frame[g].reqs = <<SearchRequest(Orig(g))>>
  /\ \A g, h \in Procs :
       FilenameTwin(g, h) =>
         /\ frame[g].reqs = frame[h].reqs
         /\ frame[g].out = frame[h].out
         /\ frame[g].err = frame[h].err
         /\ frame[g].body = frame[h].body

C6_Witness ==
  \E g, h \in Procs :
    /\ FilenameTwin(g, h)
    /\ Res(g).err = Nil /\ frame[g].out # NilPtr /\ frame[g].err = Nil
    /\ frame[g].reqs[1].in.Mode = "filename"

\* C7: when a call returns, the caller's input record and the Files client
\* are as they were when it began.
C7_NoLocalMutation ==
  \A g \in Procs :
    Done(g) =>
      /\ mem[frame[g].in] = Orig(g)
      /\ files = Deref(frame[g].files0)

\* Two goroutines are at conflicting accesses to the Mode of one record: one
\* at a store, the other at a store or a load.
DataRace ==
  \E g, h \in Procs : \E r \in Recs :
    g # h /\ Storing(g, r) /\ (Storing(h, r) \/ Loading(h, r))

\* C8: in every interleaving of calls no two of them are at conflicting
\* accesses to one memory location, and each call sends the request it
\* would send when run alone.
C8_ConcurrentCallsIndependent ==
  /\ ~DataRace
  /\ \A g \in Procs :
       SearchDone(g) => frame[g].reqs = <<SearchRequest(Orig(g))>>

\* C9: the remote store holds, per path, the bytes of the caller's stream in
\* the last upload it accepted; an Upload hands its Reader over unread; and
\* a Download that succeeds returns, unread and open, a stream of the bytes
\* last uploaded to its path.
C9_UploadDownloadRoundTrip ==
  /\ store = lastUp
  /\ \A g \in Procs :
       /\ (Done(g) /\ frame[g].op = "Upload") =>
            /\ frame[g].reqs[1].body # NilPtr
            /\ Deref(frame[g].reqs[1].body).pos = 0
            /\ Deref(frame[g].reqs[1].body).data = Deref(frame[g].reader).data
       /\ (Done(g) /\ frame[g].op = "Download" /\ frame[g].err = Nil) =>
            /\ frame[g].expect # NilPtr
            /\ Deref(frame[g].body).content = Deref(frame[g].expect)
            /\ Deref(frame[g].body).open
            /\ Deref(frame[g].body).log = <<>>

C9_Witness ==
  \E g \in Procs :
    /\ Done(g) /\ frame[g].op = "Download" /\ frame[g].err = Nil
    /\ Deref(frame[g].body).content = <<1, 2>>
    /\ Deref(frame[g].expect) = <<1, 2>>

\* C10: when a Search given an empty Mode returns, with or without an error,
\* the caller's record has Mode = "filename" and its other fields as they
\* were; a Search given a non-empty Mode leaves the whole record as it was.
C10_SearchFillsCallerRecord ==
  \A g \in Procs :
    SearchDone(g) =>
      /\ Orig(g).Mode = "" =>
           /\ mem[frame[g].in].Mode = "filename"
           /\ [mem[frame[g].in] EXCEPT !.Mode = ""] = Orig(g)
      /\ Orig(g).Mode # "" => mem[frame[g].in] = Orig(g)

C10_Witness ==
  \E g \in Procs :
    /\ SearchDone(g) /\ Orig(g).Mode = "" /\ Res(g).err # Nil
    /\ frame[g].err = Res(g).err
    /\ mem[frame[g].in].Mode = "filename"

=============================================================================
